---- MODULE Spec2Model ----
(***************************************************************************)
(* Model of hass-backup.py: the orchestration loop of main(), the host     *)
(* object HassInfo (run_cmd, fetch_host_info, addon catalog, run_backup)   *)
(* and the backup object HassBackup (constructor, get_folders, get_addons, *)
(* get_cli_args).  The remote command channel (subprocess.run over ssh) is *)
(* the environment: every command's exit status and parsed response are    *)
(* inputs chosen by the actions.  A Python exception that nothing catches  *)
(* ends the run: pc = "crashed" and exc names the exception.               *)
(***************************************************************************)
EXTENDS Integers, Sequences, FiniteSets, TLC

\* ------------------------------------------------------------------ bounds
\* hosts in a configuration file
MaxHosts == 2
\* backup records in a configuration file, over all its hosts
MaxBackups == 2
\* entries of an include or exclude list given to the resolution functions
MaxLen == 3
\* entries of an addons include or exclude list given to get_addons
MaxAddons == 2

\* ---------------------------------------------------------------- helpers
\* Python None / a present value.
None == << >>
Some(v) == << v >>

Range(s) == { s[i] : i \in 1..Len(s) }

SeqsUpTo(S, n) == UNION { [1..k -> S] : k \in 0..n }

\* Code points of the strings the model uses (Python compares str by code point).
Chars(s) ==
    CASE s = "*" -> << 42 >>
      [] s = "addons/local" -> << 97, 100, 100, 111, 110, 115, 47, 108, 111, 99, 97, 108 >>
      [] s = "homeassistant" -> << 104, 111, 109, 101, 97, 115, 115, 105, 115, 116, 97, 110, 116 >>
      [] s = "media" -> << 109, 101, 100, 105, 97 >>
      [] s = "ssl" -> << 115, 115, 108 >>
      [] s = "Alpha" -> << 65, 108, 112, 104, 97 >>
      [] s = "Zeta" -> << 90, 101, 116, 97 >>
      [] s = "a" -> << 97 >>
      [] s = "b" -> << 98 >>
      [] s = "x" -> << 120 >>

\* Python's str.__lt__ : lexicographic on code points, a proper prefix is smaller.
RECURSIVE SeqLess(_, _)
SeqLess(u, v) ==
    IF Len(v) = 0 THEN FALSE
    ELSE IF Len(u) = 0 THEN TRUE
    ELSE IF u[1] < v[1] THEN TRUE
    ELSE IF u[1] > v[1] THEN FALSE
    ELSE SeqLess(Tail(u), Tail(v))

StrLess(s, t) == SeqLess(Chars(s), Chars(t))

\* ------------------------------------------------------------- the inputs
FolderNames == { "*", "addons/local", "homeassistant", "media", "ssl" }
AddonSlugs == { "a", "b", "x" }

\* Parsed responses of `ha addons`: slug -> display name.
CatalogEmpty == [ s \in {} |-> "" ]
CatalogAB == [ s \in { "a", "b" } |-> IF s = "a" THEN "Zeta" ELSE "Alpha" ]
Catalogs == { CatalogEmpty, CatalogAB }
\* Two addons of different repositories under one display name.
CatalogTie == [ s \in { "a", "b" } |-> "Alpha" ]

\* Exit statuses of a remote command.
ExitCodes == { 0, 1 }

\* What subprocess.run hands back: the exit status and the captured stdout, as
\* yaml.safe_load reads it.  A field the command does not print is absent; a
\* command that fails prints no record.
Stdout(free, total, addons, slug, size) ==
    [ disk_free |-> free, disk_total |-> total, addons |-> addons, slug |-> slug, size |-> size ]
EmptyOut == Stdout(None, None, CatalogEmpty, None, None)
CmdResult(rc, out) == [ returncode |-> rc, stdout |-> out ]

\* `ha host info`: disk_free in GB, and a disk_total that may be zero or missing.
HostInfoResults ==
    { CmdResult(0, Stdout(Some(f), t, CatalogEmpty, None, None)) :
        f \in { 1, 2 }, t \in { None, Some(0), Some(10) } }
    \cup { CmdResult(rc, EmptyOut) : rc \in ExitCodes \ { 0 } }

\* `ha addons`
AddonsResults ==
    { CmdResult(0, Stdout(None, None, c, None, None)) : c \in Catalogs }
    \cup { CmdResult(rc, EmptyOut) : rc \in ExitCodes \ { 0 } }

\* `ha backups new ...`
BackupNewResults ==
    { CmdResult(0, Stdout(None, None, CatalogEmpty, Some("slug"), None)) }
    \cup { CmdResult(rc, EmptyOut) : rc \in ExitCodes \ { 0 } }

\* `ha backups info <slug>`
BackupInfoResults ==
    { CmdResult(0, Stdout(None, None, CatalogEmpty, None, Some(100))) }
    \cup { CmdResult(rc, EmptyOut) : rc \in ExitCodes \ { 0 } }

\* The order in which a Python set of slugs is iterated (hash order).
HashOrders == { << "a", "b", "x" >>, << "x", "b", "a" >> }

\* The "enabled" entry of a backup record of the YAML file.
EnabledValues == { "absent", "bool_true", "bool_false", "str_false", "str_False" }

BConfig(en, fi, fe, ai, ae) ==
    [ enabled |-> en, folders_include |-> fi, folders_exclude |-> fe,
      addons_include |-> ai, addons_exclude |-> ae ]

\* Backup records a configuration file is drawn from.
BackupConfigs ==
    { BConfig("absent", << "ssl", "homeassistant" >>, << >>, << >>, << >>),
      BConfig("absent", << >>, << >>, << "*" >>, << >>),
      BConfig("absent", << >>, << >>, << "x" >>, << >>),
      BConfig("absent", << "*" >>, << >>, << >>, << >>),
      BConfig("absent", << "ssl" >>, << "ssl" >>, << >>, << >>),
      BConfig("bool_false", << "media" >>, << >>, << >>, << >>),
      BConfig("str_false", << "media" >>, << >>, << >>, << >>) }

\* Configuration files of n hosts with at most k backup records in all.
RECURSIVE ConfigsOf(_, _)
ConfigsOf(n, k) ==
    IF n = 0 THEN { << >> }
    ELSE UNION { { << hc >> \o rest : rest \in ConfigsOf(n - 1, k - Len(hc)) } :
                 hc \in SeqsUpTo(BackupConfigs, k) }

Configs == UNION { ConfigsOf(n, MaxBackups) : n \in 1..MaxHosts }

\* ---------------------------------------------------------------- program
VARIABLES
    config,     \* the parsed YAML file: per host, its backup records
    dryrun,     \* arg_dryrun of main
    pc,         \* where main is: "parse", "pre", "backup", "post", "done", "crashed"
    exc,        \* the exception that ended the run, "none" otherwise
    hi,         \* index of the host the loop of main is at
    bi,         \* index of the backup the inner loop of main is at
    hass,       \* hass_configs: the HassInfo objects, in configuration order
    cmdlog,     \* every call of run_cmd so far, in order
    out         \* what a resolution method returned when called on its own

vars == << config, dryrun, pc, exc, hi, bi, hass, cmdlog, out >>

\* ---------------------------------------------------- HassBackup.__init__
\* Mutant: the constructor keeps a folder exclude list and goes on.
HassBackup_init_keeps_exclude(bconfig) ==
    LET obj0 == [ enabled |-> FALSE, folders_include |-> << >>, folders_exclude |-> << >>,
                  addons_include |-> << >>, addons_exclude |-> << >>,
                  slug |-> None, results |-> None ]
    IN  IF bconfig.enabled \in { "str_false", "str_False" }
        THEN [ exc |-> "TypeError", obj |-> obj0 ]
        ELSE [ exc |-> "none",
               obj |-> [ obj0 EXCEPT !.enabled = (bconfig.enabled # "bool_false"),
                                     !.folders_include = bconfig.folders_include,
                                     !.folders_exclude = bconfig.folders_exclude,
                                     !.addons_include = bconfig.addons_include,
                                     !.addons_exclude = bconfig.addons_exclude ] ]

\* [ exc, obj ]: obj is the constructed object when exc = "none".
HassBackup_init(bconfig) ==
    LET obj0 == [ enabled |-> FALSE, folders_include |-> << >>, folders_exclude |-> << >>,
                  addons_include |-> << >>, addons_exclude |-> << >>,
                  slug |-> None, results |-> None ]
    IN  IF bconfig.enabled \in { "str_false", "str_False" }
        THEN \* `return False` in __init__
             [ exc |-> "TypeError", obj |-> obj0 ]
        ELSE LET obj1 == [ obj0 EXCEPT !.enabled = (bconfig.enabled # "bool_false"),
                                       !.folders_include = bconfig.folders_include,
                                       !.folders_exclude = bconfig.folders_exclude ]
             IN  IF Len(bconfig.folders_exclude) > 0
                 THEN [ exc |-> "NotImplementedError", obj |-> obj1 ]
                 ELSE [ exc |-> "none",
                        obj |-> [ obj1 EXCEPT !.addons_include = bconfig.addons_include,
                                              !.addons_exclude = bconfig.addons_exclude ] ]

\* ------------------------------------- HassInfo.__init__ and configure
HassInfo_init(hass_config) ==
    LET made == [ i \in 1..Len(hass_config) |-> HassBackup_init(hass_config[i]) ]
        bad == { i \in 1..Len(hass_config) : made[i].exc # "none" }
        first == CHOOSE i \in bad : \A j \in bad : i <= j
    IN  [ exc |-> IF bad = {} THEN "none" ELSE made[first].exc,
          obj |-> [ enabled |-> TRUE,
                    disable_reason |-> None,
                    last_cmd_result |-> None,
                    disk_free_gb |-> None,
                    disk_size |-> None,
                    disk_free_pct |-> None,
                    backups_defined |-> [ i \in 1..Len(hass_config) |-> made[i].obj ],
                    backups_enabled |-> (Len(hass_config) > 0),
                    addons_info |-> CatalogEmpty ] ]

\* ---------------------------------------------------- HassInfo.parseyaml
parseyaml(cfg) ==
    LET made == [ h \in 1..Len(cfg) |-> HassInfo_init(cfg[h]) ]
        bad == { h \in 1..Len(cfg) : made[h].exc # "none" }
        first == CHOOSE h \in bad : \A j \in bad : h <= j
    IN  [ exc |-> IF bad = {} THEN "none" ELSE made[first].exc,
          instances |-> [ h \in 1..Len(cfg) |-> made[h].obj ] ]

\* ------------------------------------------------------ HassInfo.run_cmd
\* Mutant: the failure branch forgets the reason.
run_cmd_no_reason(m, h, cmd, spec, result) ==
    LET ret == (result.returncode = 0)
        entry == [ host |-> h, cmd |-> cmd, spec |-> spec, result |-> result,
                   enabled |-> m.self.enabled, ret |-> ret ]
        self1 == [ m.self EXCEPT !.last_cmd_result = Some(result) ]
    IN  IF ret
        THEN [ self |-> self1, cmdlog |-> Append(m.cmdlog, entry), exc |-> "none", ret |-> TRUE ]
        ELSE [ self |-> [ self1 EXCEPT !.enabled = FALSE ],
               cmdlog |-> Append(m.cmdlog, entry), exc |-> "none", ret |-> FALSE ]

\* Mutant: a command that succeeds enables the host again.
run_cmd_reenable(m, h, cmd, spec, result) ==
    LET ret == (result.returncode = 0)
        entry == [ host |-> h, cmd |-> cmd, spec |-> spec, result |-> result,
                   enabled |-> m.self.enabled, ret |-> ret ]
        self1 == [ m.self EXCEPT !.last_cmd_result = Some(result) ]
    IN  IF ret
        THEN [ self |-> [ self1 EXCEPT !.enabled = TRUE, !.disable_reason = None ],
               cmdlog |-> Append(m.cmdlog, entry), exc |-> "none", ret |-> TRUE ]
        ELSE [ self |-> [ self1 EXCEPT !.enabled = FALSE,
                                       !.disable_reason = Some("disabled: ha host info failed") ],
               cmdlog |-> Append(m.cmdlog, entry), exc |-> "none", ret |-> FALSE ]

\* Mutant: only a failing `ha host info` disables the host.
run_cmd_host_info_only(m, h, cmd, spec, result) ==
    LET ret == (result.returncode = 0)
        entry == [ host |-> h, cmd |-> cmd, spec |-> spec, result |-> result,
                   enabled |-> m.self.enabled, ret |-> ret ]
        self1 == [ m.self EXCEPT !.last_cmd_result = Some(result) ]
    IN  IF ret
        THEN [ self |-> self1, cmdlog |-> Append(m.cmdlog, entry), exc |-> "none", ret |-> TRUE ]
        ELSE IF cmd = "host_info"
        THEN [ self |-> [ self1 EXCEPT !.enabled = FALSE,
                                       !.disable_reason = Some("disabled: ha host info failed") ],
               cmdlog |-> Append(m.cmdlog, entry), exc |-> "none", ret |-> FALSE ]
        ELSE [ self |-> self1, cmdlog |-> Append(m.cmdlog, entry), exc |-> "none", ret |-> FALSE ]

\* m = [ self, cmdlog, exc, ret ]: the host object, the calls so far, the pending
\* exception and the value the last call returned.
run_cmd(m, h, cmd, spec, result) ==
    LET ret == (result.returncode = 0)
        entry == [ host |-> h, cmd |-> cmd, spec |-> spec, result |-> result,
                   enabled |-> m.self.enabled, ret |-> ret ]
        self1 == [ m.self EXCEPT !.last_cmd_result = Some(result) ]
    IN  IF ret
        THEN [ self |-> self1, cmdlog |-> Append(m.cmdlog, entry), exc |-> "none", ret |-> TRUE ]
        ELSE [ self |-> [ self1 EXCEPT !.enabled = FALSE,
                                       !.disable_reason = Some("disabled: ha host info failed") ],
               cmdlog |-> Append(m.cmdlog, entry), exc |-> "none", ret |-> FALSE ]

\* ---------------------------------------------- HassInfo.fetch_host_info
MinFreeGB == 2

fetch_host_info(m, h, result) ==
    LET r == run_cmd(m, h, "host_info", 0, result)
        free == result.stdout.disk_free
        total == result.stdout.disk_total
        r1 == [ r EXCEPT !.self.disk_free_gb = free, !.self.disk_size = total ]
    IN  IF ~r.ret THEN r
        ELSE IF free = None \/ total = None THEN [ r1 EXCEPT !.exc = "TypeError" ]
        ELSE IF total[1] = 0 THEN [ r1 EXCEPT !.exc = "ZeroDivisionError" ]
        ELSE [ r1 EXCEPT !.self.disk_free_pct = Some((free[1] * 100) \div total[1]),
                         !.self.backups_enabled = IF free[1] < MinFreeGB THEN FALSE ELSE @ ]

\* --------------------------------------- HassInfo.fetch_addons_installed
fetch_addons_installed(m, h, spec, result) ==
    LET r == run_cmd(m, h, "addons", spec, result)
    IN  IF r.ret THEN [ r EXCEPT !.self.addons_info = result.stdout.addons ] ELSE r

\* ----------------------------------------- HassInfo.get_addons_installed
\* `not self.addons_info` is true of the empty dict.
get_addons_installed(m, h, spec, result) ==
    IF DOMAIN m.self.addons_info = {}
    THEN fetch_addons_installed(m, h, spec, result)
    ELSE m

\* ------------------------------------------------ HassBackup.get_folders
\* list.sort() on str: insertion into an ascending list.
RECURSIVE InsertStr(_, _)
InsertStr(x, s) ==
    IF Len(s) = 0 THEN << x >>
    ELSE IF StrLess(x, s[1]) THEN << x >> \o s
    ELSE << s[1] >> \o InsertStr(x, Tail(s))

RECURSIVE SortStr(_)
SortStr(s) == IF Len(s) = 0 THEN << >> ELSE InsertStr(s[1], SortStr(Tail(s)))

\* list(a_set): some enumeration of the set.
ListOf(S) == CHOOSE s \in [1..Cardinality(S) -> S] : Range(s) = S

\* list.remove(x): the list without its first x.
RECURSIVE ListRemove(_, _)
ListRemove(s, x) ==
    IF Len(s) = 0 THEN << >>
    ELSE IF s[1] = x THEN Tail(s)
    ELSE << s[1] >> \o ListRemove(Tail(s), x)

\* `for f in exclude: folders.remove(f)`: set.remove raises KeyError on a non-member.
RECURSIVE RemoveEach(_, _)
RemoveEach(S, ex) ==
    IF Len(ex) = 0 THEN [ exc |-> "none", val |-> S ]
    ELSE IF ex[1] \notin S THEN [ exc |-> "KeyError", val |-> S ]
    ELSE RemoveEach(S \ { ex[1] }, Tail(ex))

\* Mutant: "homeassistant" stays where the sort put it.
get_folders_no_move(backup) ==
    LET folders == Range(backup.folders_include)
    IN  IF "*" \in folders
        THEN [ exc |-> "NotImplementedError", val |-> << >> ]
        ELSE IF folders = {} /\ Len(backup.folders_exclude) > 0
        THEN [ exc |-> "NotImplementedError", val |-> << >> ]
        ELSE LET rem == RemoveEach(folders, backup.folders_exclude)
             IN  IF rem.exc # "none" THEN [ exc |-> rem.exc, val |-> << >> ]
                 ELSE [ exc |-> "none", val |-> SortStr(ListOf(rem.val)) ]

\* Mutant: "*" is taken as the name of a folder.
get_folders_wildcard_literal(backup) ==
    LET folders == Range(backup.folders_include)
    IN  IF folders = {} /\ Len(backup.folders_exclude) > 0
        THEN [ exc |-> "NotImplementedError", val |-> << >> ]
        ELSE LET rem == RemoveEach(folders, backup.folders_exclude)
                 sorted == SortStr(ListOf(rem.val))
             IN  IF rem.exc # "none" THEN [ exc |-> rem.exc, val |-> << >> ]
                 ELSE IF rem.val = {} THEN [ exc |-> "none", val |-> << >> ]
                 ELSE IF "homeassistant" \in Range(sorted)
                 THEN [ exc |-> "none",
                        val |-> << "homeassistant" >> \o ListRemove(sorted, "homeassistant") ]
                 ELSE [ exc |-> "none", val |-> sorted ]

get_folders(backup) ==
    LET folders == Range(backup.folders_include)
    IN  IF "*" \in folders
        THEN [ exc |-> "NotImplementedError", val |-> << >> ]
        ELSE IF folders = {} /\ Len(backup.folders_exclude) > 0
        THEN [ exc |-> "NotImplementedError", val |-> << >> ]
        ELSE LET rem == RemoveEach(folders, backup.folders_exclude)
                 sorted == SortStr(ListOf(rem.val))
             IN  IF rem.exc # "none" THEN [ exc |-> rem.exc, val |-> << >> ]
                 ELSE IF rem.val = {} THEN [ exc |-> "none", val |-> << >> ]
                 ELSE IF "homeassistant" \in Range(sorted)
                 THEN [ exc |-> "none",
                        val |-> << "homeassistant" >> \o ListRemove(sorted, "homeassistant") ]
                 ELSE [ exc |-> "none", val |-> sorted ]

\* ------------------------------------------------- HassBackup.get_addons
\* The elements of S in the order the set is iterated.
RECURSIVE IterOf(_, _)
IterOf(S, order) ==
    IF Len(order) = 0 THEN << >>
    ELSE IF order[1] \in S THEN << order[1] >> \o IterOf(S, Tail(order))
    ELSE IterOf(S, Tail(order))

\* sorted(addons, key=name) is stable: an element goes after those whose key is
\* not greater.
RECURSIVE InsertByName(_, _, _)
InsertByName(x, s, installed) ==
    IF Len(s) = 0 THEN << x >>
    ELSE IF StrLess(installed[x], installed[s[1]]) THEN << x >> \o s
    ELSE << s[1] >> \o InsertByName(x, Tail(s), installed)

RECURSIVE SortByName(_, _)
SortByName(s, installed) ==
    IF Len(s) = 0 THEN << >>
    ELSE InsertByName(s[Len(s)], SortByName(SubSeq(s, 1, Len(s) - 1), installed), installed)

\* Mutant: an exclude list alone does not start from the installed addons.
get_addons_no_seed(backup, installed, order) ==
    LET all == DOMAIN installed
        inc == (Range(backup.addons_include) \ { "*" })
                    \cup (IF "*" \in Range(backup.addons_include) THEN all ELSE {})
        addons == inc \ Range(backup.addons_exclude)
    IN  IF addons \subseteq all
        THEN [ exc |-> "none", val |-> SortByName(IterOf(addons, order), installed) ]
        ELSE [ exc |-> "KeyError", val |-> << >> ]

\* Mutant: addons.remove(f) without the try/except around it.
get_addons_strict_remove(backup, installed, order) ==
    LET all == DOMAIN installed
        seed == IF Len(backup.addons_include) = 0 /\ Len(backup.addons_exclude) > 0
                THEN all ELSE {}
        inc == seed \cup (Range(backup.addons_include) \ { "*" })
                    \cup (IF "*" \in Range(backup.addons_include) THEN all ELSE {})
        addons == inc \ Range(backup.addons_exclude)
    IN  IF addons \subseteq all /\ Range(backup.addons_exclude) \subseteq inc
        THEN [ exc |-> "none", val |-> SortByName(IterOf(addons, order), installed) ]
        ELSE [ exc |-> "KeyError", val |-> << >> ]

get_addons(backup, installed, order) ==
    LET all == DOMAIN installed
        seed == IF Len(backup.addons_include) = 0 /\ Len(backup.addons_exclude) > 0
                THEN all ELSE {}
        inc == seed \cup (Range(backup.addons_include) \ { "*" })
                    \cup (IF "*" \in Range(backup.addons_include) THEN all ELSE {})
        addons == inc \ Range(backup.addons_exclude)
    IN  IF addons \subseteq all
        THEN [ exc |-> "none", val |-> SortByName(IterOf(addons, order), installed) ]
        ELSE [ exc |-> "KeyError", val |-> << >> ]

\* ----------------------------------------------- HassBackup.get_cli_args
RECURSIVE OptionPairs(_, _)
OptionPairs(opt, vals) ==
    IF Len(vals) = 0 THEN << >> ELSE << opt, vals[1] >> \o OptionPairs(opt, Tail(vals))

\* Mutant: the addons options come before the folders options.
get_cli_args_addons_first(m, h, i, in) ==
    LET backup == m.self.backups_defined[i]
        folders == get_folders(backup)
        g == get_addons_installed(m, h, i, in.addons)
        addons == get_addons(backup, g.self.addons_info, in.order)
    IN  IF folders.exc # "none"
        THEN [ self |-> m.self, cmdlog |-> m.cmdlog, exc |-> folders.exc, args |-> << >> ]
        ELSE IF addons.exc # "none"
        THEN [ self |-> g.self, cmdlog |-> g.cmdlog, exc |-> addons.exc, args |-> << >> ]
        ELSE [ self |-> g.self, cmdlog |-> g.cmdlog, exc |-> "none",
               args |-> OptionPairs("--addons", addons.val)
                            \o OptionPairs("--folders", folders.val) ]

\* in = [ addons, new, info: what the commands return if issued; order: hash order ]
get_cli_args(m, h, i, in) ==
    LET backup == m.self.backups_defined[i]
        folders == get_folders(backup)
        g == get_addons_installed(m, h, i, in.addons)
        addons == get_addons(backup, g.self.addons_info, in.order)
    IN  IF folders.exc # "none"
        THEN [ self |-> m.self, cmdlog |-> m.cmdlog, exc |-> folders.exc, args |-> << >> ]
        ELSE IF addons.exc # "none"
        THEN [ self |-> g.self, cmdlog |-> g.cmdlog, exc |-> addons.exc, args |-> << >> ]
        ELSE [ self |-> g.self, cmdlog |-> g.cmdlog, exc |-> "none",
               args |-> OptionPairs("--folders", folders.val)
                            \o OptionPairs("--addons", addons.val) ]

\* --------------------------------------------------- HassInfo.run_backup
\* Mutant: the dry-run flag is not looked at.
run_backup_ignores_dryrun(m, h, i, dry, in) ==
    LET backup == m.self.backups_defined[i]
        a == get_cli_args(m, h, i, in)
        a0 == [ self |-> a.self, cmdlog |-> a.cmdlog, exc |-> a.exc, ret |-> FALSE ]
        c == run_cmd(a0, h, "backups_new", i, in.new)
        c1 == [ c EXCEPT !.self.backups_defined[i].slug = in.new.stdout.slug ]
        d == run_cmd(c1, h, "backups_info", i, in.info)
        d1 == [ d EXCEPT !.self.backups_defined[i].results = Some(in.info.stdout) ]
    IN  IF ~backup.enabled THEN m
        ELSE IF a.exc # "none" THEN a0
        ELSE IF ~c.ret THEN [ c EXCEPT !.exc = "UnboundLocalError" ]
        ELSE IF in.info.stdout = EmptyOut THEN [ d EXCEPT !.exc = "TypeError" ]
        ELSE d1

run_backup(m, h, i, dry, in) ==
    LET backup == m.self.backups_defined[i]
        a == get_cli_args(m, h, i, in)
        a0 == [ self |-> a.self, cmdlog |-> a.cmdlog, exc |-> a.exc, ret |-> FALSE ]
        c == run_cmd(a0, h, "backups_new", i, in.new)
        c1 == [ c EXCEPT !.self.backups_defined[i].slug = in.new.stdout.slug ]
        d == run_cmd(c1, h, "backups_info", i, in.info)
        d1 == [ d EXCEPT !.self.backups_defined[i].results = Some(in.info.stdout) ]
    IN  IF ~backup.enabled THEN m
        ELSE IF a.exc # "none" THEN a0
        ELSE IF dry THEN a0
        ELSE IF ~c.ret THEN [ c EXCEPT !.exc = "UnboundLocalError" ]
        ELSE IF in.info.stdout = EmptyOut THEN [ d EXCEPT !.exc = "TypeError" ]
        ELSE d1

\* ------------------------------------------------------------------ main
\* No method has returned yet.
NoOut == [ exc |-> "pending", val |-> << >> ]

Init ==
    /\ config \in Configs
    /\ dryrun \in BOOLEAN
    /\ pc = "parse"
    /\ exc = "none"
    /\ hi = 1
    /\ bi = 1
    /\ hass = << >>
    /\ cmdlog = << >>
    /\ out = NoOut

\* The host object and the log, as the methods take them.
Self(h) == [ self |-> hass[h], cmdlog |-> cmdlog, exc |-> "none", ret |-> FALSE ]

\* An uncaught exception leaves main; otherwise the loop goes to `next`.
Continue(r, nextpc, nexthi, nextbi) ==
    /\ hass' = [ hass EXCEPT ![hi] = r.self ]
    /\ cmdlog' = r.cmdlog
    /\ exc' = r.exc
    /\ IF r.exc # "none"
       THEN pc' = "crashed" /\ UNCHANGED << hi, bi >>
       ELSE pc' = nextpc /\ hi' = nexthi /\ bi' = nextbi

\* hass_configs = HassInfo.parseyaml(arg_results.config_file)
ParseYaml ==
    /\ pc = "parse"
    /\ LET r == parseyaml(config)
       IN  /\ exc' = r.exc
           /\ IF r.exc # "none"
              THEN pc' = "crashed" /\ UNCHANGED hass
              ELSE pc' = "pre" /\ hass' = r.instances
    /\ UNCHANGED << config, dryrun, hi, bi, cmdlog, out >>

\* hasshost.fetch_host_info() at the top of the loop body
FetchHostInfoPre ==
    /\ pc = "pre"
    /\ \E result \in HostInfoResults :
         Continue(fetch_host_info(Self(hi), hi, result),
                  IF Len(hass[hi].backups_defined) > 0 THEN "backup" ELSE "post", hi, 1)
    /\ UNCHANGED << config, dryrun, out >>

\* hass_configs[hasshostname].run_backup(backup, dryrun = arg_dryrun)
RunBackup ==
    /\ pc = "backup"
    /\ \E ra \in AddonsResults, rn \in BackupNewResults, ri \in BackupInfoResults,
          order \in HashOrders :
         Continue(run_backup(Self(hi), hi, bi, dryrun,
                             [ addons |-> ra, new |-> rn, info |-> ri, order |-> order ]),
                  IF bi < Len(hass[hi].backups_defined) THEN "backup" ELSE "post",
                  hi, IF bi < Len(hass[hi].backups_defined) THEN bi + 1 ELSE bi)
    /\ UNCHANGED << config, dryrun, out >>

\* Mutant: main goes on to the next host without the second fetch_host_info.
FetchHostInfoPost_skipped ==
    /\ pc = "post"
    /\ pc' = IF hi < Len(hass) THEN "pre" ELSE "done"
    /\ hi' = IF hi < Len(hass) THEN hi + 1 ELSE hi
    /\ bi' = 1
    /\ UNCHANGED << config, dryrun, exc, hass, cmdlog, out >>

\* hasshost.fetch_host_info() after the backups of the host
FetchHostInfoPost ==
    /\ pc = "post"
    /\ \E result \in HostInfoResults :
         Continue(fetch_host_info(Self(hi), hi, result),
                  IF hi < Len(hass) THEN "pre" ELSE "done",
                  IF hi < Len(hass) THEN hi + 1 ELSE hi, 1)
    /\ UNCHANGED << config, dryrun, out >>

Next == ParseYaml \/ FetchHostInfoPre \/ RunBackup \/ FetchHostInfoPost

Spec == Init /\ [][Next]_vars

\* ------------------------------------------- get_folders called on its own
\* Configurations of one host with one backup record: every folder include list,
\* with or without a folder exclude, an addons entry and an enabled entry.
FolderConfigs ==
    { << << BConfig(en, fi, fe, ai, << >>) >> >> :
        en \in { "absent", "bool_false", "str_false" },
        fi \in SeqsUpTo(FolderNames, MaxLen),
        fe \in SeqsUpTo({ "ssl", "media" }, 1),
        ai \in { << >>, << "*" >> } }

InitFolders ==
    /\ config \in FolderConfigs
    /\ dryrun \in BOOLEAN
    /\ pc = "parse"
    /\ exc = "none"
    /\ hi = 1
    /\ bi = 1
    /\ hass = << >>
    /\ cmdlog = << >>
    /\ out = NoOut

\* backup.get_folders() on the object the constructor made
GetFolders ==
    /\ pc = "pre"
    /\ out = NoOut
    /\ out' = get_folders(hass[1].backups_defined[1])
    /\ pc' = "returned"
    /\ UNCHANGED << config, dryrun, exc, hi, bi, hass, cmdlog >>

\* hass.run_backup(backup, dryrun) on the object the constructor made
RunBackupOnce ==
    /\ pc = "pre"
    /\ out = NoOut
    /\ \E ra \in AddonsResults, rn \in BackupNewResults, ri \in BackupInfoResults,
          order \in HashOrders :
         LET r == run_backup(Self(1), 1, 1, dryrun,
                             [ addons |-> ra, new |-> rn, info |-> ri, order |-> order ])
         IN  /\ hass' = [ hass EXCEPT ![1] = r.self ]
             /\ cmdlog' = r.cmdlog
             /\ exc' = r.exc
    /\ pc' = "returned"
    /\ UNCHANGED << config, dryrun, hi, bi, out >>

NextFolders == ParseYaml \/ GetFolders \/ RunBackupOnce

SpecFolders == InitFolders /\ [][NextFolders]_vars

\* -------------------------------------------- get_addons called on its own
\* Configurations of one host with one backup record that declares addons, with
\* or without folders.
AddonConfigs ==
    { << << BConfig("absent", fi, << >>, ai, ae) >> >> :
        fi \in { << >>, << "ssl", "homeassistant" >> },
        ai \in SeqsUpTo(AddonSlugs \cup { "*" }, MaxAddons),
        ae \in SeqsUpTo(AddonSlugs, MaxAddons) }

\* `ha addons`, also of a host with two addons of one display name.
AddonsResultsTie ==
    AddonsResults \cup { CmdResult(0, Stdout(None, None, CatalogTie, None, None)) }

InitAddons ==
    /\ config \in AddonConfigs
    /\ dryrun = TRUE
    /\ pc = "parse"
    /\ exc = "none"
    /\ hi = 1
    /\ bi = 1
    /\ hass = << >>
    /\ cmdlog = << >>
    /\ out = NoOut

\* backup.get_addons() on the object the constructor made; the catalog is the
\* one self.hass.get_addons_installed() hands it.
GetAddons ==
    /\ pc = "pre"
    /\ out = NoOut
    /\ \E ra \in AddonsResultsTie, order \in HashOrders :
         LET g == get_addons_installed(Self(1), 1, 1, ra)
         IN  /\ hass' = [ hass EXCEPT ![1] = g.self ]
             /\ cmdlog' = g.cmdlog
             /\ out' = get_addons(hass[1].backups_defined[1], g.self.addons_info, order)
    /\ pc' = "returned"
    /\ UNCHANGED << config, dryrun, exc, hi, bi >>

NextAddons == ParseYaml \/ GetAddons

SpecAddons == InitAddons /\ [][NextAddons]_vars

\* ------------------------------------------ get_cli_args called on its own
\* backup.get_cli_args() on the object the constructor made
GetCliArgs ==
    /\ pc = "pre"
    /\ out = NoOut
    /\ \E ra \in AddonsResultsTie, order \in HashOrders :
         LET r == get_cli_args(Self(1), 1, 1, [ addons |-> ra, order |-> order ])
         IN  /\ hass' = [ hass EXCEPT ![1] = r.self ]
             /\ cmdlog' = r.cmdlog
             /\ out' = [ exc |-> r.exc, val |-> r.args ]
    /\ pc' = "returned"
    /\ UNCHANGED << config, dryrun, exc, hi, bi >>

NextCliArgs == ParseYaml \/ GetCliArgs

SpecCliArgs == InitAddons /\ [][NextCliArgs]_vars

\* ----------------------------------------------------------------- claims
\* The k-th call of run_cmd.
Cmds == 1..Len(cmdlog)
Failed(k) == cmdlog[k].result.returncode # 0
IsLast(k) == k = Len(cmdlog)

\* C1: once a host's enabled flag is false, no further remote command is issued
\* against that host: every command is issued against a host that is enabled.
C1_NoCommandAgainstDisabledHost ==
    \A k \in Cmds : cmdlog[k].enabled

\* The host whose backup record failed to resolve: at construction (the run
\* ended in parseyaml) the first host with a folder exclude, else the host the
\* loop is at.
FailingHost ==
    IF hass = << >>
    THEN CHOOSE h \in 1..Len(config) :
           /\ \E i \in 1..Len(config[h]) : Len(config[h][i].folders_exclude) > 0
           /\ \A g \in 1..(h - 1) : \A i \in 1..Len(config[g]) :
                 Len(config[g][i].folders_exclude) = 0
    ELSE hi

\* C2: a failure while resolving one backup (folder wildcard, folder exclude,
\* exclude of a non-member, addon missing from the catalog) is confined to it:
\* a run that met one has still attempted every later host of the configuration.
C2_ResolutionFailureConfined ==
    (pc = "crashed" /\ exc \in { "NotImplementedError", "KeyError" })
        => \A h \in (FailingHost + 1)..Len(config) : \E k \in Cmds : cmdlog[k].host = h

\* C3: a create-backup or backup-info command that returns non-zero does not
\* end the run with an exception.
C3_CommandFailureDoesNotAbort ==
    ~ ( /\ pc = "crashed"
        /\ exc \in { "UnboundLocalError", "TypeError" }
        /\ \E k \in Cmds : /\ IsLast(k)
                            /\ Failed(k)
                            /\ cmdlog[k].cmd \in { "backups_new", "backups_info" } )

\* C4: after a successful host-info response whose disk total is zero or
\* missing there is no exception, and the host is disabled with a reason.
C4_ZeroTotalDisablesHost ==
    \A k \in Cmds :
        ( /\ cmdlog[k].cmd = "host_info"
          /\ ~ Failed(k)
          /\ cmdlog[k].result.stdout.disk_total \in { None, Some(0) } )
        => /\ exc = "none"
           /\ ~ hass[cmdlog[k].host].enabled
           /\ hass[cmdlog[k].host].disable_reason # None

\* C5: after a host-info fetch that reported less than 2.0 GB free, no
\* create-backup command is issued against that host.
C5_NoBackupAfterLowDisk ==
    \A j \in Cmds : \A k \in Cmds :
        ( /\ j < k
          /\ cmdlog[j].cmd = "host_info"
          /\ ~ Failed(j)
          /\ cmdlog[j].result.stdout.disk_free[1] < MinFreeGB
          /\ cmdlog[k].host = cmdlog[j].host )
        => cmdlog[k].cmd # "backups_new"

\* C6: a host whose enabled flag is false has a disable_reason, and a host no
\* command was issued against yet is enabled.
C6_DisabledHasReason ==
    \A h \in DOMAIN hass :
        /\ ~ hass[h].enabled => hass[h].disable_reason # None
        /\ (\A k \in Cmds : cmdlog[k].host # h) => hass[h].enabled

C6_Witness ==
    \E h \in DOMAIN hass : ~ hass[h].enabled /\ hass[h].disable_reason # None

\* C7: no step of the run sets the enabled flag of a host back to true.
C7_DisableIsOneWay ==
    [][ \A h \in DOMAIN hass :
          ~ hass[h].enabled => (h \in DOMAIN hass' /\ ~ hass'[h].enabled) ]_vars

\* A command succeeded against a host a failed command had disabled, and the
\* host is still disabled.
C7_Witness ==
    \E j \in Cmds : \E k \in Cmds :
        /\ j < k
        /\ cmdlog[j].host = cmdlog[k].host
        /\ Failed(j)
        /\ ~ Failed(k)
        /\ ~ hass[cmdlog[k].host].enabled

\* C8: run_cmd returns true exactly when the exit status is zero, and a host is
\* disabled exactly when some command issued against it returned non-zero.
C8_DisabledIffCommandFailed ==
    /\ \A k \in Cmds : cmdlog[k].ret <=> ~ Failed(k)
    /\ \A h \in DOMAIN hass :
          ~ hass[h].enabled <=> \E k \in Cmds : cmdlog[k].host = h /\ Failed(k)

\* A failing command other than host-info disabled one host, while another host
\* saw only successes and is enabled.
C8_Witness ==
    \E h \in DOMAIN hass : \E g \in DOMAIN hass :
        /\ ~ hass[h].enabled
        /\ \A k \in Cmds : (cmdlog[k].host = h /\ Failed(k)) => cmdlog[k].cmd # "host_info"
        /\ hass[g].enabled
        /\ \E k \in Cmds : cmdlog[k].host = g /\ cmdlog[k].ret

C10_FoldersSortedHomeassistantFirst ==
    LET bc == config[1][1]
        inc == Range(bc.folders_include)
        r == out.val
        rest == IF "homeassistant" \in inc THEN Tail(r) ELSE r
    IN  ( /\ out # NoOut
          /\ "*" \notin inc
          /\ Len(bc.folders_exclude) = 0 )
        => /\ out.exc = "none"
           /\ Range(r) = inc
           /\ Len(r) = Cardinality(inc)
           /\ "homeassistant" \in inc => r[1] = "homeassistant"
           /\ \A i \in 1..Len(rest) : \A j \in 1..Len(rest) :
                 i < j => StrLess(rest[i], rest[j])

\* "homeassistant" was moved in front of a folder that sorts before it.
C10_Witness ==
    /\ config[1][1].folders_include = << "ssl", "homeassistant", "addons/local" >>
    /\ out = [ exc |-> "none", val |-> << "homeassistant", "addons/local", "ssl" >> ]

\* The catalog get_addons worked on (host 1 of the one-record configurations).
Installed == hass[1].addons_info

Name(slug) == Installed[slug]

\* C11: with include ["*"], or with an empty include and a non-empty exclude,
\* get_addons returns exactly the installed slugs that are not excluded, each
\* once, by ascending display name; with both lists empty it returns nothing.
C11_WildcardAndExcludeOnly ==
    LET bc == config[1][1]
        r == out.val
    IN  /\ ( /\ out # NoOut
             /\ \/ bc.addons_include = << "*" >>
                \/ Len(bc.addons_include) = 0 /\ Len(bc.addons_exclude) > 0 )
           => /\ out.exc = "none"
              /\ Range(r) = DOMAIN Installed \ Range(bc.addons_exclude)
              /\ Len(r) = Cardinality(Range(r))
              /\ \A i \in 1..Len(r) : \A j \in 1..Len(r) :
                    i < j => ~ StrLess(Name(r[j]), Name(r[i]))
        /\ ( /\ out # NoOut
             /\ Len(bc.addons_include) = 0
             /\ Len(bc.addons_exclude) = 0 )
           => out = [ exc |-> "none", val |-> << >> ]

\* An exclude list alone gave the one installed addon it does not name.
C11_Witness ==
    /\ config[1][1].addons_include = << >>
    /\ config[1][1].addons_exclude = << "a" >>
    /\ out = [ exc |-> "none", val |-> << "b" >> ]
    /\ Installed = CatalogAB

\* The sequence s without its p-th entry.
WithoutAt(s, p) == SubSeq(s, 1, p - 1) \o SubSeq(s, p + 1, Len(s))

\* What get_addons returned is what it returns, on the same catalog and the same
\* iteration order, for the object without the p-th entry of its exclude list.
SameWithoutExclude(p) ==
    LET backup == hass[1].backups_defined[1]
        less == [ backup EXCEPT !.addons_exclude = WithoutAt(@, p) ]
    IN  \A order \in HashOrders :
            out = get_addons(backup, Installed, order)
                => out = get_addons(less, Installed, order)

\* The p-th exclude entry names an addon that is neither installed nor included.
ExcludesAbsent(p) ==
    /\ config[1][1].addons_exclude[p] \notin DOMAIN Installed
    /\ config[1][1].addons_exclude[p] \notin Range(config[1][1].addons_include)

\* C12 as stated: an exclude entry that names an addon neither installed nor
\* included raises nothing and leaves the result what it is without the entry.
C12_ExcludeOfAbsentIsNoOp ==
    out # NoOut
        => \A p \in 1..Len(config[1][1].addons_exclude) :
              ExcludesAbsent(p) => SameWithoutExclude(p)

\* C12, amended: the same, when the entry is not the only entry of an exclude
\* list that stands without an include list (dropping that one turns the
\* "all installed" start into an empty one).
C12_ExcludeOfAbsentIsNoOpUnlessSole ==
    out # NoOut
        => \A p \in 1..Len(config[1][1].addons_exclude) :
              ( /\ ExcludesAbsent(p)
                /\ \/ Len(config[1][1].addons_include) > 0
                   \/ Len(config[1][1].addons_exclude) > 1 )
              => SameWithoutExclude(p)

\* An addon that is not installed was excluded next to an included one.
C12_Witness ==
    /\ config[1][1].addons_include = << "*" >>
    /\ config[1][1].addons_exclude = << "x" >>
    /\ out = [ exc |-> "none", val |-> << "b", "a" >> ]
    /\ Installed = CatalogAB

\* C13: a literal slug of the include list that is not in the installed catalog
\* (and not excluded) is accepted: get_addons returns, and returns it.
C13_UninstalledLiteralAccepted ==
    out # NoOut
        => \A f \in Range(config[1][1].addons_include) \ { "*" } :
              ( /\ f \notin DOMAIN Installed
                /\ f \notin Range(config[1][1].addons_exclude) )
              => /\ out.exc = "none"
                 /\ f \in Range(out.val)

\* The record asks for a folder feature that is not implemented: the wildcard
\* in the include list, or an exclude list without an include list.
UnsupportedFolders(bc) ==
    \/ "*" \in Range(bc.folders_include)
    \/ Len(bc.folders_include) = 0 /\ Len(bc.folders_exclude) > 0

\* The enabled entry is one the constructor's first check stops at (C16), before
\* it looks at the folders.
EnabledIsString(bc) == bc.enabled \in { "str_false", "str_False" }

ExcludesFromInclude(bc) ==
    /\ Len(bc.folders_include) > 0
    /\ "*" \notin Range(bc.folders_include)
    /\ Len(bc.folders_exclude) > 0

\* C15 as stated: with a non-empty include list, an exclude entry that is not
\* in it makes folder resolution fail; one that is in it is resolved, and the
\* folder is absent from what get_folders returns.
C15_FolderExcludeApplied ==
    LET bc == config[1][1]
        f == bc.folders_exclude[1]
    IN  ( /\ ExcludesFromInclude(bc)
          /\ ~ EnabledIsString(bc)
          /\ pc # "parse" )
        => IF f \in Range(bc.folders_include)
           THEN /\ pc # "crashed"
                /\ out # NoOut => (out.exc = "none" /\ f \notin Range(out.val))
           ELSE \/ pc = "crashed"
                \/ out # NoOut /\ out.exc # "none"
                \/ pc = "returned" /\ exc # "none"

\* C15, amended: a record with a folder exclude entry is rejected by the
\* constructor, whether or not the entry is in the include list: construction
\* raises NotImplementedError (TypeError, if the enabled check raised first),
\* no object exists, and neither get_folders nor any command runs for it.
C15_FolderExcludeRejected ==
    LET bc == config[1][1]
    IN  ( /\ ExcludesFromInclude(bc)
          /\ pc # "parse" )
        => /\ pc = "crashed"
           /\ exc = IF EnabledIsString(bc) THEN "TypeError" ELSE "NotImplementedError"
           /\ hass = << >>
           /\ out = NoOut
           /\ cmdlog = << >>

\* The constructor rejected a record that excludes a folder it includes.
C15_Witness ==
    /\ config[1][1].folders_include = << "ssl", "media" >>
    /\ config[1][1].folders_exclude = << "ssl" >>
    /\ pc = "crashed"
    /\ exc = "NotImplementedError"

\* The backup records of the configuration, as (host, index) pairs.
Records == { hb \in (1..Len(config)) \X (1..MaxBackups) : hb[2] <= Len(config[hb[1]]) }

\* C16: a record whose enabled entry is the string "false" is constructed
\* disabled and skipped: loading the configuration completes, no addon-list or
\* create-backup command is issued for the record, and a record without an
\* enabled entry is enabled.  (Configurations without a folder exclude, whose
\* loading fails for that reason.)
C16_StringFalseIsDisabled ==
    ( /\ pc # "parse"
      /\ \A hb \in Records : Len(config[hb[1]][hb[2]].folders_exclude) = 0 )
    => /\ hass # << >>
       /\ \A hb \in Records :
             LET bc == config[hb[1]][hb[2]]
                 backup == hass[hb[1]].backups_defined[hb[2]]
             IN  /\ EnabledIsString(bc)
                      => /\ ~ backup.enabled
                         /\ \A k \in Cmds :
                               (cmdlog[k].host = hb[1] /\ cmdlog[k].spec = hb[2])
                                   => cmdlog[k].cmd \notin { "addons", "backups_new" }
                 /\ bc.enabled = "absent" => backup.enabled

\* C17: in a dry run no create-backup and no backup-info command is issued;
\* a create-backup command is issued only in a run that is not a dry run.
C17_DryRunIssuesNoBackup ==
    dryrun => \A k \in Cmds : cmdlog[k].cmd \notin { "backups_new", "backups_info" }

\* A dry run went through a backup of an enabled host up to the resolution of
\* its addons and on to the end of the configuration.
C17_Witness ==
    /\ dryrun
    /\ pc = "done"
    /\ \E k \in Cmds : /\ cmdlog[k].cmd = "addons"
                        /\ cmdlog[k].ret
                        /\ hass[cmdlog[k].host].enabled
                        /\ hass[cmdlog[k].host].backups_enabled

\* C18: get_cli_args returns one "--folders", name pair for every resolved
\* folder, in the order get_folders gives, then one "--addons", slug pair for
\* every resolved addon, in the order get_addons gives, and nothing else.
C18_CliArgsAreFoldersThenAddons ==
    (out # NoOut /\ out.exc = "none")
    => \E order \in HashOrders :
          LET backup == hass[1].backups_defined[1]
              folders == get_folders(backup).val
              addons == get_addons(backup, Installed, order).val
              nf == Len(folders)
              cmd_args == out.val
          IN  /\ Len(cmd_args) = 2 * (nf + Len(addons))
              /\ \A i \in 1..nf :
                    cmd_args[2 * i - 1] = "--folders" /\ cmd_args[2 * i] = folders[i]
              /\ \A j \in 1..Len(addons) :
                    /\ cmd_args[2 * (nf + j) - 1] = "--addons"
                    /\ cmd_args[2 * (nf + j)] = addons[j]

\* Two folders and the two installed addons, each in its resolved order.
C18_Witness ==
    /\ config[1][1].folders_include = << "ssl", "homeassistant" >>
    /\ config[1][1].addons_include = << "*" >>
    /\ out = [ exc |-> "none",
               val |-> << "--folders", "homeassistant", "--folders", "ssl",
                          "--addons", "b", "--addons", "a" >> ]

\* C19: the addons get_addons returns are in ascending order of display name,
\* and addons of one display name are in ascending order of slug.
C19_OrderByNameThenSlug ==
    (out # NoOut /\ out.exc = "none")
    => \A i \in 1..Len(out.val) : \A j \in 1..Len(out.val) :
          i < j => \/ StrLess(Name(out.val[i]), Name(out.val[j]))
                   \/ /\ Name(out.val[i]) = Name(out.val[j])
                      /\ StrLess(out.val[i], out.val[j])

\* The main loop has left host h: all its commands are in the log.
Completed(h) == hass # << >> /\ (h < hi \/ pc = "done")

\* The commands issued against host h, by their place in the log.
CmdsOf(h) == { k \in Cmds : cmdlog[k].host = h }

\* C20: the commands are issued host after host in configuration order; for a
\* host that main has left, the first command is host-info, the commands of
\* its backups follow in the order the backups are declared, and the last
\* command is the host-info issued after them.
C20_CommandsInConfigOrder ==
    /\ \A j \in Cmds : \A k \in Cmds : j < k => cmdlog[j].host <= cmdlog[k].host
    /\ \A h \in DOMAIN hass :
          Completed(h)
          => \E first \in CmdsOf(h) : \E last \in CmdsOf(h) :
                /\ first < last
                /\ cmdlog[first].cmd = "host_info"
                /\ cmdlog[last].cmd = "host_info"
                /\ \A k \in CmdsOf(h) \ { first, last } :
                      /\ first < k /\ k < last
                      /\ cmdlog[k].cmd # "host_info"
                /\ \A j \in CmdsOf(h) : \A k \in CmdsOf(h) :
                      ( /\ j < k
                        /\ cmdlog[j].cmd = "backups_new"
                        /\ cmdlog[k].cmd = "backups_new" )
                      => cmdlog[j].spec < cmdlog[k].spec

\* A run of two hosts that created the two backups of the first host.
C20_Witness ==
    /\ pc = "done"
    /\ Len(hass) = 2
    /\ \E j \in CmdsOf(1) : \E k \in CmdsOf(1) :
          /\ cmdlog[j].cmd = "backups_new" /\ cmdlog[j].spec = 1
          /\ cmdlog[k].cmd = "backups_new" /\ cmdlog[k].spec = 2
    /\ CmdsOf(2) # {}

\* C21: if the addon-list command issued while a backup is resolved returns
\* non-zero, no create-backup command is issued for that backup.
C21_NoBackupAfterFailedAddonList ==
    \A j \in Cmds : \A k \in Cmds :
        ( /\ j < k
          /\ cmdlog[j].cmd = "addons"
          /\ Failed(j)
          /\ cmdlog[k].host = cmdlog[j].host
          /\ cmdlog[k].spec = cmdlog[j].spec )
        => cmdlog[k].cmd # "backups_new"

====
